---- MODULE Spec2Model ----
(***************************************************************************)
(* Request negotiation and status-transition engine of Tramper             *)
(* (apps/requests): Request rows, their CounterOffer rows, the Shipment    *)
(* rows an acceptance links, and the four client operations                *)
(* CreateRequest, UpdateRequestStatus, AppendCounterOffer, DeleteRequest.  *)
(*                                                                         *)
(* The database variables hold COMMITTED rows only.  Whether a view runs    *)
(* inside one database transaction (ATOMIC_REQUESTS) depends on the        *)
(* settings module config.settings selects, so it is chosen in Init.  Spec *)
(* executes each view as one step (operations one at a time); SpecConc     *)
(* splits the two status-writing views into their statements, run by       *)
(* concurrent workers under READ COMMITTED isolation.                      *)
(***************************************************************************)
EXTENDS Integers, Sequences, FiniteSets, TLC

(* ------------------------------ bounds -------------------------------- *)
\* number of CounterOffer rows one Request may hold
MaxOffers == 2
\* largest price a client sends
MaxPrice == 2
\* latest clock reading a CounterOffer row is stamped with
MaxClock == 3

(* ----------------------------- the world ------------------------------ *)
NULL == "NULL"

Users == {"A", "B", "C"}

\* User.is_superuser
is_superuser(u) == u = "C"

\* User.is_staff (UserManager.create_superuser sets both flags)
is_staff(u) == u = "C"

ShipmentIds == {"s1"}
TripIds == {"t1"}
\* a primary key that matches no row
MissingId == "missing"

\* the Request primary keys (uuid4) the database hands out, each at most once
RequestIds == {"r1"}

\* Request.STATUS_CHOICES
STATUS_CHOICES == {"pending", "accepted", "rejected", "countered", "cancelled", "expired"}

\* mutant of FinalStatuses: an accepted Request stays open
FinalStatuses_accepted_open == {"rejected", "cancelled", "expired"}

\* the statuses validate_status refuses to leave
FinalStatuses == {"accepted", "rejected", "cancelled", "expired"}

\* the statuses CounterOfferCreateView.post accepts
OpenStatuses == {"pending", "countered"}

\* what a client may send as "status": a choice, nothing, or an invalid choice
StatusInputs == STATUS_CHOICES \cup {NULL, "bogus"}

\* offered_price as sent by a client: one negative value, one valid
OfferedPrices == {0 - 1, 0}
\* CounterOffer price as sent by a client: 0 is invalid
Prices == 0 .. MaxPrice

\* Shipment.STATUS_CHOICES
SHIPMENT_STATUS_CHOICES ==
    {"pending", "accepted", "in_transit", "delivered", "received", "cancelled"}
\* the status a shipment owner sends when the parcel leaves
ShipmentStatusInputs == {"in_transit"}

VARIABLES
    requests,        \* Request table: pk -> row
    used_pks,        \* the Request primary keys handed out so far
    counter_offers,  \* CounterOffer table: rows in insertion order
    shipments,       \* Shipment table: id -> [sender, traveler, status]
    trips,           \* Trip table: id -> [total_weight, used_weight]
    resp,            \* the response of the last finished view
    workers,         \* SpecConc: the in-flight view of each worker
    ATOMIC_REQUESTS, \* DATABASES["default"]["ATOMIC_REQUESTS"] of the deployment
    notifications    \* the Notification rows the last finished view committed

vars == <<requests, used_pks, counter_offers, shipments, trips, resp, workers,
          ATOMIC_REQUESTS, notifications>>
db == <<requests, used_pks, counter_offers, shipments, trips>>

Workers == {"w1", "w2"}

Idle == [pc |-> "idle"]

(* --------------------------- Request model ---------------------------- *)
\* the CounterOffer rows of one Request, in the order they were inserted
OffersOf(table, pk) == SelectSeq(table, LAMBDA c : c.request = pk)

\* auto_now_add: the clock reading stored in created_at; it is later than the
\* created_at of every CounterOffer row of the Request written so far, committed
\* or not (only the order of created_at within one Request is ever read)
NowFor(table, pk) ==
    LET committed == {OffersOf(table, pk)[i].created_at :
                         i \in 1 .. Len(OffersOf(table, pk))}
        inserting == {x \in DOMAIN workers :
                         /\ workers[x].pc \in {"inserted", "offer_notified"}
                         /\ workers[x].pk = pk}
        readings == committed \cup {workers[x].row.created_at : x \in inserting}
    IN  IF readings = {} THEN 1
        ELSE 1 + CHOOSE t \in readings : \A r \in readings : r <= t

\* mutant of latest_counter_offer: the row with the earliest created_at
latest_counter_offer_oldest(table, pk) ==
    LET rows == OffersOf(table, pk)
    IN  IF rows = <<>> THEN NULL
        ELSE rows[CHOOSE i \in 1 .. Len(rows) :
                    \A j \in 1 .. Len(rows) : rows[i].created_at <= rows[j].created_at]

\* Request.latest_counter_offer: counter_offers.order_by("-created_at").first()
latest_counter_offer(table, pk) ==
    LET rows == OffersOf(table, pk)
    IN  IF rows = <<>> THEN NULL
        ELSE rows[CHOOSE i \in 1 .. Len(rows) :
                    \A j \in 1 .. Len(rows) : rows[j].created_at <= rows[i].created_at]

\* Request.current_price: latest.price if latest else self.offered_price
\* (latest is None exactly when the Request has no CounterOffer row)
current_price(reqs, table, pk) ==
    IF OffersOf(table, pk) = <<>>
    THEN reqs[pk].offered_price
    ELSE latest_counter_offer(table, pk).price

\* CounterOffer.Meta.ordering = ["created_at"]: rows sorted by created_at
RECURSIVE SortByCreatedAt(_)
SortByCreatedAt(rows) ==
    IF rows = <<>> THEN <<>>
    ELSE LET i == CHOOSE i \in 1 .. Len(rows) :
                    \A j \in 1 .. Len(rows) : rows[i].created_at <= rows[j].created_at
         IN  <<rows[i]>> \o
             SortByCreatedAt(SubSeq(rows, 1, i - 1) \o SubSeq(rows, i + 1, Len(rows)))

\* RequestSerializer.counter_offers: the chain of a Request as the API returns it
Chain(table, pk) == SortByCreatedAt(OffersOf(table, pk))

(* ----------------------------- responses ------------------------------ *)
\* core.api.success_response: {"success": True, "data": ...} with any status code
success_response(op, code) == [op |-> op, code |-> code, success |-> TRUE]

\* core.exceptions.custom_exception_handler: {"success": False, "error": ...} with
\* the status code of the exception (500 for an unhandled one)
custom_exception_handler(op, code) == [op |-> op, code |-> code, success |-> FALSE]

Failed(r) == r.code >= 400

(* ------------------------ permissions, validation --------------------- *)
\* IsRequestParticipant.has_object_permission
IsRequestParticipant(req, u) ==
    req.sender = u \/ req.receiver = u \/ is_superuser(u)

\* mutant of validate_status: the final-status check is dropped
validate_status_final_open(instance, u, value) ==
    /\ ~(value \in {"accepted", "rejected", "countered"} /\ instance.receiver # u)
    /\ ~(value = "cancelled" /\ instance.sender # u)

\* mutant of validate_status: the sender may accept as well
validate_status_sender_accepts(instance, u, value) ==
    /\ ~(value \in {"rejected", "countered"} /\ instance.receiver # u)
    /\ ~(value = "accepted" /\ instance.receiver # u /\ instance.sender # u)
    /\ ~(value = "cancelled" /\ instance.sender # u)
    /\ instance.status \notin {"accepted", "rejected", "cancelled", "expired"}

\* mutant of validate_status: the role checks are dropped
validate_status_any_role(instance, u, value) ==
    instance.status \notin {"accepted", "rejected", "cancelled", "expired"}

\* RequestUpdateSerializer.validate_status: TRUE when no ValidationError is raised
validate_status(instance, u, value) ==
    /\ ~(value \in {"accepted", "rejected", "countered"} /\ instance.receiver # u)
    /\ ~(value = "cancelled" /\ instance.sender # u)
    /\ instance.status \notin FinalStatuses

\* RequestUpdateSerializer.is_valid with partial=True: "status" is optional,
\* a ChoiceField over STATUS_CHOICES, then validate_status
RequestUpdateValid(instance, u, value) ==
    \/ value = NULL
    \/ value \in STATUS_CHOICES /\ validate_status(instance, u, value)

\* serializer.save(): the instance with the validated status applied
RequestUpdateSave(instance, value) ==
    IF value = NULL THEN instance ELSE [instance EXCEPT !.status = value]

\* mutant of validate_price: zero passes
validate_price_nonnegative(value) == value >= 0

\* CounterOfferCreateSerializer.validate_price
validate_price(value) == value > 0

\* mutant of IsCounterParticipant: a superuser passes too
IsCounterParticipant_or_superuser(req, u) ==
    req.sender = u \/ req.receiver = u \/ is_superuser(u)

\* CounterOfferCreateView.post: the participant check
IsCounterParticipant(req, u) == ~(u # req.sender /\ u # req.receiver)

\* CounterOfferCreateView.post: the state check
OpenToCounter(req) == req.status \in OpenStatuses

\* mutant of counter_receiver: the acting user is the receiver as well
counter_receiver_self(req, u) == u

\* mutant of counter_receiver: always the Request's receiver
counter_receiver_fixed(req, u) == req.receiver

\* CounterOfferCreateView.post: "Determine receiver of counter offer"
counter_receiver(req, u) == IF u = req.sender THEN req.receiver ELSE req.sender

\* mutant of Traveler: always the Request's receiver
Traveler_receiver(req, ships) == req.receiver

\* RequestDetailView.patch: the traveler an acceptance assigns
Traveler(req, ships) ==
    IF req.sender = ships[req.shipment].sender THEN req.receiver ELSE req.sender

\* RequestDetailView.patch: "If accepted, update shipment traveler"
UpdatesShipment(req) == req.status = "accepted" /\ req.shipment # NULL

\* req.shipment.save(update_fields=["traveler", "status"])
LinkShipment(ships, req) ==
    [ships EXCEPT ![req.shipment] =
        [@ EXCEPT !.traveler = Traveler(req, ships), !.status = "accepted"]]

\* NotificationService.notify_request_created: a row for the Request's receiver
notify_request_created(request_obj) ==
    [user |-> request_obj.receiver,
     title |-> IF request_obj.shipment # NULL THEN "New Shipment Request"
               ELSE "New Trip Request"]

\* mutant of notify_request_accepted: the row goes to the accepting user
notify_request_accepted_to_receiver(request_obj) ==
    [user |-> request_obj.receiver, title |-> "Request Accepted"]

\* NotificationService.notify_request_accepted: a row for the Request's sender
notify_request_accepted(request_obj) ==
    [user |-> request_obj.sender, title |-> "Request Accepted"]

\* NotificationService.notify_request_rejected: a row for the Request's sender
notify_request_rejected(request_obj) ==
    [user |-> request_obj.sender, title |-> "Request Rejected"]

\* NotificationService.notify_counter_offer: a row for the CounterOffer's receiver
notify_counter_offer(counter_offer) ==
    [user |-> counter_offer.receiver, title |-> "New Counter Offer"]

\* RequestDetailView.patch: which notification the status change sends
SendsNotification(old_status, req) ==
    req.status # old_status /\ req.status \in {"accepted", "rejected"}

\* mutant of TripsAfterPatch: acceptance books one unit of the Trip's capacity
TripsAfterPatch_debit(trps, req) ==
    IF req.status = "accepted" /\ req.trip # NULL
    THEN [trps EXCEPT ![req.trip].used_weight =
             IF @ < trps[req.trip].total_weight THEN @ + 1 ELSE @]
    ELSE trps

\* RequestDetailView.patch: the Trip rows after the view's writes; the view
\* writes req.shipment only and no Trip or TripCapacity row
TripsAfterPatch(trps, req) == trps

\* TripCapacity.available_weight
available_weight(capacity) == capacity.total_weight - capacity.used_weight

\* TripCapacity.is_full
is_full(capacity) == capacity.used_weight >= capacity.total_weight

\* RequestDetailView.patch: "Send notifications based on status change", the
\* rows it inserts
StatusNotifications(old_status, req) ==
    IF req.status # old_status
    THEN IF req.status = "accepted" THEN <<notify_request_accepted(req)>>
         ELSE IF req.status = "rejected" THEN <<notify_request_rejected(req)>>
         ELSE <<>>
    ELSE <<>>

\* mutant of MayDelete: either party of the Request may delete it
MayDelete_participant(req, u) == IsRequestParticipant(req, u)

\* RequestDetailView.delete: the sender-or-superuser check
MayDelete(req, u) == ~(req.sender # u /\ ~is_superuser(u))

\* mutant of RequestCreateValid: the trip is not looked up
RequestCreateValid_trip_unchecked(u, receiver_id, shipment_id, trip_id, offered_price, ships, trps) ==
    /\ offered_price >= 0
    /\ ~(shipment_id = NULL /\ trip_id = NULL)
    /\ receiver_id # u
    /\ shipment_id # NULL => shipment_id \in DOMAIN ships
    /\ receiver_id \in Users

\* mutant of RequestCreateValid: a request to oneself passes
RequestCreateValid_self(u, receiver_id, shipment_id, trip_id, offered_price, ships, trps) ==
    /\ offered_price >= 0
    /\ ~(shipment_id = NULL /\ trip_id = NULL)
    /\ shipment_id # NULL => shipment_id \in DOMAIN ships
    /\ trip_id # NULL => trip_id \in DOMAIN trps
    /\ receiver_id \in Users

\* RequestCreateSerializer: field validators, then validate()
RequestCreateValid(u, receiver_id, shipment_id, trip_id, offered_price, ships, trps) ==
    /\ offered_price >= 0
    /\ ~(shipment_id = NULL /\ trip_id = NULL)
    /\ receiver_id # u
    /\ shipment_id # NULL => shipment_id \in DOMAIN ships
    /\ trip_id # NULL => trip_id \in DOMAIN trps
    /\ receiver_id \in Users

(* ------------------------------- Init --------------------------------- *)
\* config.settings: config.local (the default) replaces DATABASES by one without
\* ATOMIC_REQUESTS, config.production with DATABASE_URL set takes DATABASES from
\* dj_database_url.config (no ATOMIC_REQUESTS either), and config.production
\* without DATABASE_URL sets "ATOMIC_REQUESTS": True
AtomicRequestsSettings == {FALSE, TRUE}

Init ==
    /\ requests = <<>>
    /\ used_pks = {}
    /\ counter_offers = <<>>
    /\ shipments = [s \in ShipmentIds |-> [sender |-> "A", traveler |-> NULL, status |-> "pending"]]
    /\ trips = [t \in TripIds |-> [traveler |-> "B", total_weight |-> 2, used_weight |-> 0]]
    /\ resp = success_response("none", 200)
    /\ workers = [w \in Workers |-> Idle]
    /\ ATOMIC_REQUESTS \in AtomicRequestsSettings
    /\ notifications = <<>>

(* ----------------------- the views, one step each --------------------- *)
\* Notification.objects.create inside a view: it returns, or it raises a database
\* error, which custom_exception_handler answers with 500.  Under ATOMIC_REQUESTS
\* the error marks the view's transaction for rollback (Model.save_base,
\* mark_for_rollback_on_error); without it the statements the view has already
\* run stay committed and the ones after the notification never run
NotifyOutcomes == BOOLEAN

\* RequestListCreateView.post, the new row's primary key (uuid4) being one of
\* pks that was not handed out before
CreateRequestFrom(pks, u, receiver_id, shipment_id, trip_id, offered_price) ==
    /\ UNCHANGED <<counter_offers, shipments, trips, workers, ATOMIC_REQUESTS>>
    /\ IF ~RequestCreateValid(u, receiver_id, shipment_id, trip_id, offered_price, shipments, trips)
       THEN /\ resp' = custom_exception_handler("CreateRequest", 400)
            /\ notifications' = <<>>
            /\ UNCHANGED <<requests, used_pks>>
       ELSE \E notify_ok \in NotifyOutcomes, pk \in pks \ used_pks :
            LET req == [sender |-> u, receiver |-> receiver_id,
                        shipment |-> shipment_id, trip |-> trip_id,
                        offered_price |-> offered_price, status |-> "pending"]
            IN  IF ~notify_ok /\ ATOMIC_REQUESTS
                THEN /\ resp' = custom_exception_handler("CreateRequest", 500)
                     /\ notifications' = <<>>
                     /\ UNCHANGED <<requests, used_pks>>
                ELSE /\ requests' = (pk :> req) @@ requests
                     /\ used_pks' = used_pks \cup {pk}
                     /\ notifications' = IF notify_ok
                                         THEN <<notify_request_created(req)>>
                                         ELSE <<>>
                     /\ resp' = IF notify_ok
                                THEN success_response("CreateRequest", 201)
                                ELSE custom_exception_handler("CreateRequest", 500)

\* RequestListCreateView.post
CreateRequest(u, receiver_id, shipment_id, trip_id, offered_price) ==
    CreateRequestFrom(RequestIds, u, receiver_id, shipment_id, trip_id, offered_price)

\* RequestDetailView.patch
UpdateRequestStatus(u, pk, value) ==
    /\ UNCHANGED <<used_pks, counter_offers, workers, ATOMIC_REQUESTS>>
    /\ IF pk \notin DOMAIN requests
       THEN /\ resp' = success_response("UpdateRequestStatus", 404)
            /\ notifications' = <<>>
            /\ UNCHANGED <<requests, shipments, trips>>
       ELSE IF ~IsRequestParticipant(requests[pk], u)
       THEN /\ resp' = custom_exception_handler("UpdateRequestStatus", 403)
            /\ notifications' = <<>>
            /\ UNCHANGED <<requests, shipments, trips>>
       ELSE IF ~RequestUpdateValid(requests[pk], u, value)
       THEN /\ resp' = custom_exception_handler("UpdateRequestStatus", 400)
            /\ notifications' = <<>>
            /\ UNCHANGED <<requests, shipments, trips>>
       ELSE LET req == RequestUpdateSave(requests[pk], value)
                Commit ==
                    /\ requests' = [requests EXCEPT ![pk] = req]
                    /\ notifications' = StatusNotifications(requests[pk].status, req)
                    /\ shipments' = IF UpdatesShipment(req)
                                    THEN LinkShipment(shipments, req)
                                    ELSE shipments
                    /\ trips' = TripsAfterPatch(trips, req)
                    /\ resp' = success_response("UpdateRequestStatus", 200)
                Abort ==
                    /\ requests' = IF ATOMIC_REQUESTS THEN requests
                                   ELSE [requests EXCEPT ![pk] = req]
                    /\ notifications' = <<>>
                    /\ UNCHANGED <<shipments, trips>>
                    /\ resp' = custom_exception_handler("UpdateRequestStatus", 500)
            IN  IF SendsNotification(requests[pk].status, req)
                THEN \E notify_ok \in NotifyOutcomes : IF notify_ok THEN Commit ELSE Abort
                ELSE Commit

\* CounterOfferCreateView.post
AppendCounterOffer(u, pk, price) ==
    /\ UNCHANGED <<used_pks, shipments, trips, workers, ATOMIC_REQUESTS>>
    /\ IF pk \notin DOMAIN requests
       THEN /\ resp' = success_response("AppendCounterOffer", 404)
            /\ notifications' = <<>>
            /\ UNCHANGED <<requests, counter_offers>>
       ELSE IF ~IsCounterParticipant(requests[pk], u)
       THEN /\ resp' = success_response("AppendCounterOffer", 403)
            /\ notifications' = <<>>
            /\ UNCHANGED <<requests, counter_offers>>
       ELSE IF ~OpenToCounter(requests[pk])
       THEN /\ resp' = success_response("AppendCounterOffer", 400)
            /\ notifications' = <<>>
            /\ UNCHANGED <<requests, counter_offers>>
       ELSE IF ~validate_price(price)
       THEN /\ resp' = custom_exception_handler("AppendCounterOffer", 400)
            /\ notifications' = <<>>
            /\ UNCHANGED <<requests, counter_offers>>
       ELSE \E notify_ok \in NotifyOutcomes :
            LET counter_offer == [request |-> pk, sender |-> u,
                                  receiver |-> counter_receiver(requests[pk], u),
                                  price |-> price,
                                  created_at |-> NowFor(counter_offers, pk)]
            IN  IF ~notify_ok /\ ATOMIC_REQUESTS
                THEN /\ resp' = custom_exception_handler("AppendCounterOffer", 500)
                     /\ notifications' = <<>>
                     /\ UNCHANGED <<requests, counter_offers>>
                ELSE /\ Len(OffersOf(counter_offers, pk)) < MaxOffers
                     /\ counter_offers' = Append(counter_offers, counter_offer)
                     /\ notifications' = IF notify_ok
                                         THEN <<notify_counter_offer(counter_offer)>>
                                         ELSE <<>>
                     /\ requests' = IF notify_ok
                                    THEN [requests EXCEPT ![pk].status = "countered"]
                                    ELSE requests
                     /\ resp' = IF notify_ok
                                THEN success_response("AppendCounterOffer", 201)
                                ELSE custom_exception_handler("AppendCounterOffer", 500)

\* mutant of CASCADE: on_delete=SET_NULL, the Requests stay without the reference
SET_NULL(reqs, field, id) ==
    [k \in DOMAIN reqs |->
        IF reqs[k][field] = id
        THEN [reqs[k] EXCEPT ![field] = NULL]
        ELSE reqs[k]]

\* Request.shipment, Request.trip: on_delete=models.CASCADE, the Requests that
\* reference a deleted row are deleted with it
CASCADE(reqs, field, id) ==
    [k \in {x \in DOMAIN reqs : reqs[x][field] # id} |-> reqs[k]]

\* req.delete(): the Request row goes, and its CounterOffer rows with it
\* (CounterOffer.request: on_delete=CASCADE)
DeleteRows(reqs, pks) == [k \in DOMAIN reqs \ pks |-> reqs[k]]

DeleteOffers(table, pks) == SelectSeq(table, LAMBDA c : c.request \notin pks)

\* mutant of DeleteRequest: req.delete() runs before the sender-or-superuser check
DeleteRequest_delete_first(u, pk) ==
    /\ UNCHANGED <<used_pks, shipments, trips, workers, ATOMIC_REQUESTS>>
    /\ notifications' = <<>>
    /\ IF pk \notin DOMAIN requests
       THEN /\ resp' = success_response("DeleteRequest", 404)
            /\ UNCHANGED <<requests, counter_offers>>
       ELSE /\ requests' = DeleteRows(requests, {pk})
            /\ counter_offers' = DeleteOffers(counter_offers, {pk})
            /\ resp' = IF ~MayDelete(requests[pk], u)
                       THEN success_response("DeleteRequest", 403)
                       ELSE success_response("DeleteRequest", 200)

\* RequestDetailView.delete
DeleteRequest(u, pk) ==
    /\ UNCHANGED <<used_pks, shipments, trips, workers, ATOMIC_REQUESTS>>
    /\ notifications' = <<>>
    /\ IF pk \notin DOMAIN requests
       THEN /\ resp' = success_response("DeleteRequest", 404)
            /\ UNCHANGED <<requests, counter_offers>>
       ELSE IF ~MayDelete(requests[pk], u)
       THEN /\ resp' = success_response("DeleteRequest", 403)
            /\ UNCHANGED <<requests, counter_offers>>
       ELSE /\ requests' = DeleteRows(requests, {pk})
            /\ counter_offers' = DeleteOffers(counter_offers, {pk})
            /\ resp' = success_response("DeleteRequest", 200)

\* shipments.permissions.IsOwnerOrAdminOrReadOnly.has_object_permission, for a write
IsOwnerOrAdmin(shipment, u) == shipment.sender = u \/ is_staff(u)

\* ShipmentDetailView.patch with a body {"status": value}
UpdateShipment(u, sid, value) ==
    /\ UNCHANGED <<requests, used_pks, counter_offers, trips, workers, ATOMIC_REQUESTS>>
    /\ notifications' = <<>>
    /\ IF sid \notin DOMAIN shipments
       THEN /\ resp' = success_response("UpdateShipment", 404)
            /\ UNCHANGED shipments
       ELSE IF ~IsOwnerOrAdmin(shipments[sid], u)
       THEN /\ resp' = custom_exception_handler("UpdateShipment", 403)
            /\ UNCHANGED shipments
       ELSE IF value \notin SHIPMENT_STATUS_CHOICES
       THEN /\ resp' = custom_exception_handler("UpdateShipment", 400)
            /\ UNCHANGED shipments
       ELSE /\ shipments' = [shipments EXCEPT ![sid].status = value]
            /\ resp' = success_response("UpdateShipment", 200)

\* ShipmentDetailView.delete: the Requests of the Shipment go with it
\* (Request.shipment: on_delete=CASCADE), and their CounterOffers with them
DeleteShipment(u, sid) ==
    /\ UNCHANGED <<used_pks, trips, workers, ATOMIC_REQUESTS>>
    /\ notifications' = <<>>
    /\ IF sid \notin DOMAIN shipments
       THEN /\ resp' = success_response("DeleteShipment", 404)
            /\ UNCHANGED <<requests, counter_offers, shipments>>
       ELSE IF ~IsOwnerOrAdmin(shipments[sid], u)
       THEN /\ resp' = custom_exception_handler("DeleteShipment", 403)
            /\ UNCHANGED <<requests, counter_offers, shipments>>
       ELSE LET kept == CASCADE(requests, "shipment", sid)
            IN  /\ shipments' = [k \in DOMAIN shipments \ {sid} |-> shipments[k]]
                /\ requests' = kept
                /\ counter_offers' =
                       DeleteOffers(counter_offers, DOMAIN requests \ DOMAIN kept)
                /\ resp' = success_response("DeleteShipment", 200)

\* trips.permissions.IsOwnerOrAdminOrReadOnly.has_object_permission, for a write
IsTripOwnerOrAdmin(trip, u) == is_staff(u) \/ trip.traveler = u

\* TripDetailView.delete: the Requests of the Trip go with it
\* (Request.trip: on_delete=CASCADE), and their CounterOffers with them
DeleteTrip(u, tid) ==
    /\ UNCHANGED <<used_pks, shipments, workers, ATOMIC_REQUESTS>>
    /\ notifications' = <<>>
    /\ IF tid \notin DOMAIN trips
       THEN /\ resp' = success_response("DeleteTrip", 404)
            /\ UNCHANGED <<requests, counter_offers, trips>>
       ELSE IF ~IsTripOwnerOrAdmin(trips[tid], u)
       THEN /\ resp' = custom_exception_handler("DeleteTrip", 403)
            /\ UNCHANGED <<requests, counter_offers, trips>>
       ELSE LET kept == CASCADE(requests, "trip", tid)
            IN  /\ trips' = [k \in DOMAIN trips \ {tid} |-> trips[k]]
                /\ requests' = kept
                /\ counter_offers' =
                       DeleteOffers(counter_offers, DOMAIN requests \ DOMAIN kept)
                /\ resp' = success_response("DeleteTrip", 200)

\* the bodies a client posts to create a Request: every combination of an
\* existing receiver and an optional shipment and trip, and one body for each
\* of the other defects (unknown receiver, shipment or trip; negative price)
CreateBodies ==
    [receiver_id : Users, shipment_id : ShipmentIds \cup {NULL},
     trip_id : TripIds \cup {NULL}, offered_price : {0}]
    \cup [receiver_id : {MissingId}, shipment_id : ShipmentIds, trip_id : {NULL},
          offered_price : {0}]
    \cup [receiver_id : Users, shipment_id : {MissingId}, trip_id : {NULL},
          offered_price : {0}]
    \cup [receiver_id : Users, shipment_id : {NULL}, trip_id : {MissingId},
          offered_price : {0}]
    \cup [receiver_id : Users, shipment_id : ShipmentIds, trip_id : {NULL},
          offered_price : OfferedPrices]

DoCreateRequest ==
    \E u \in Users, body \in CreateBodies :
        CreateRequest(u, body.receiver_id, body.shipment_id, body.trip_id,
                      body.offered_price)

DoUpdateRequestStatus ==
    \E u \in Users, pk \in RequestIds, value \in StatusInputs :
        UpdateRequestStatus(u, pk, value)

DoAppendCounterOffer ==
    \E u \in Users, pk \in RequestIds, price \in Prices :
        AppendCounterOffer(u, pk, price)

DoDeleteRequest ==
    \E u \in Users, pk \in RequestIds : DeleteRequest(u, pk)

DoUpdateShipment ==
    \E u \in Users, sid \in ShipmentIds, value \in ShipmentStatusInputs :
        UpdateShipment(u, sid, value)

DoDeleteShipment == \E u \in Users, sid \in ShipmentIds : DeleteShipment(u, sid)

DoDeleteTrip == \E u \in Users, tid \in TripIds : DeleteTrip(u, tid)

Next ==
    \/ DoCreateRequest
    \/ DoUpdateRequestStatus
    \/ DoAppendCounterOffer
    \/ DoDeleteRequest
    \/ DoUpdateShipment
    \/ DoDeleteShipment
    \/ DoDeleteTrip

Spec == Init /\ [][Next]_vars

(* -------------- the status-writing views, statement by statement ------ *)
\* Under ATOMIC_REQUESTS a view's writes reach the other connections only when
\* its transaction commits (READ COMMITTED); without it every statement commits
\* by itself (autocommit)
InFlight(wk) == wk.pc \notin {"idle"}

\* a view that answered with success hands its connection back; every in-flight
\* view that read the same open status of the same Request now has a peer that
\* succeeded (peer_won), when one of the two is an UpdateRequestStatus call
AfterCommit(w, pk, old_status) ==
    [x \in Workers |->
        IF x = w THEN Idle
        ELSE IF /\ InFlight(workers[x])
                /\ workers[x].pk = pk
                /\ workers[x].old_status = old_status
                /\ old_status \in OpenStatuses
                /\ "UpdateRequestStatus" \in {workers[w].op, workers[x].op}
             THEN [workers[x] EXCEPT !.peer_won = TRUE]
             ELSE workers[x]]

\* RequestDetailView.patch: get_object, check_object_permissions, is_valid
PatchBegin(w, u, pk, value) ==
    /\ workers[w].pc = "idle"
    /\ UNCHANGED <<db, ATOMIC_REQUESTS>>
    /\ IF pk \notin DOMAIN requests
       THEN /\ resp' = success_response("UpdateRequestStatus", 404)
            /\ notifications' = <<>>
            /\ UNCHANGED workers
       ELSE IF ~IsRequestParticipant(requests[pk], u)
       THEN /\ resp' = custom_exception_handler("UpdateRequestStatus", 403)
            /\ notifications' = <<>>
            /\ UNCHANGED workers
       ELSE IF ~RequestUpdateValid(requests[pk], u, value)
       THEN /\ resp' = custom_exception_handler("UpdateRequestStatus", 400)
            /\ notifications' = <<>>
            /\ UNCHANGED workers
       ELSE /\ workers' = [workers EXCEPT ![w] =
                 [pc |-> "validated", op |-> "UpdateRequestStatus", pk |-> pk,
                  old_status |-> requests[pk].status,
                  req |-> RequestUpdateSave(requests[pk], value),
                  peer_won |-> FALSE]]
            /\ UNCHANGED <<resp, notifications>>

\* RequestDetailView.patch: serializer.save(), an UPDATE of the whole Request row;
\* it waits while another transaction holds an uncommitted write of that row
RowLocked(w, pk) ==
    /\ ATOMIC_REQUESTS
    /\ \E x \in Workers \ {w} :
          workers[x].pc \in {"saved", "notified"} /\ workers[x].pk = pk

PatchSave(w) ==
    /\ workers[w].pc = "validated"
    /\ workers[w].op = "UpdateRequestStatus"
    /\ ~RowLocked(w, workers[w].pk)
    /\ workers' = [workers EXCEPT ![w].pc = "saved"]
    /\ requests' = IF ATOMIC_REQUESTS THEN requests
                   ELSE [requests EXCEPT ![workers[w].pk] = workers[w].req]
    /\ UNCHANGED <<used_pks, counter_offers, shipments, trips, resp, ATOMIC_REQUESTS, notifications>>

\* RequestDetailView.patch: "Send notifications based on status change", the
\* call of notification_service after serializer.save(); when the insert raises,
\* the view ends with 500 and its transaction, if it has one, is rolled back
PatchNotify(w, notify_ok) ==
    /\ workers[w].pc = "saved"
    /\ SendsNotification(workers[w].old_status, workers[w].req)
    /\ UNCHANGED <<db, ATOMIC_REQUESTS>>
    /\ IF ~notify_ok
       THEN /\ resp' = custom_exception_handler("UpdateRequestStatus", 500)
            /\ notifications' = <<>>
            /\ workers' = [workers EXCEPT ![w] = Idle]
       ELSE /\ workers' = [workers EXCEPT ![w].pc = "notified"]
            /\ UNCHANGED <<resp, notifications>>

\* RequestDetailView.patch: "If accepted, update shipment traveler", the
\* response, and the commit of the view's transaction
PatchFinish(w) ==
    /\ \/ workers[w].pc = "notified"
       \/ /\ workers[w].pc = "saved"
          /\ ~SendsNotification(workers[w].old_status, workers[w].req)
    /\ UNCHANGED <<used_pks, counter_offers, trips, ATOMIC_REQUESTS>>
    /\ LET wk == workers[w]
       IN  /\ requests' = IF ATOMIC_REQUESTS
                          THEN [requests EXCEPT ![wk.pk] = wk.req]
                          ELSE requests
           /\ shipments' = IF UpdatesShipment(wk.req)
                           THEN LinkShipment(shipments, wk.req)
                           ELSE shipments
           /\ resp' = success_response("UpdateRequestStatus", 200)
           /\ notifications' = StatusNotifications(wk.old_status, wk.req)
           /\ workers' = AfterCommit(w, wk.pk, wk.old_status)

\* CounterOfferCreateView.post: get_request_object, the participant and state
\* checks, is_valid
CounterBegin(w, u, pk, price) ==
    /\ workers[w].pc = "idle"
    /\ UNCHANGED <<db, ATOMIC_REQUESTS>>
    /\ IF pk \notin DOMAIN requests
       THEN /\ resp' = success_response("AppendCounterOffer", 404)
            /\ notifications' = <<>>
            /\ UNCHANGED workers
       ELSE IF ~IsCounterParticipant(requests[pk], u)
       THEN /\ resp' = success_response("AppendCounterOffer", 403)
            /\ notifications' = <<>>
            /\ UNCHANGED workers
       ELSE IF ~OpenToCounter(requests[pk])
       THEN /\ resp' = success_response("AppendCounterOffer", 400)
            /\ notifications' = <<>>
            /\ UNCHANGED workers
       ELSE IF ~validate_price(price)
       THEN /\ resp' = custom_exception_handler("AppendCounterOffer", 400)
            /\ notifications' = <<>>
            /\ UNCHANGED workers
       ELSE /\ workers' = [workers EXCEPT ![w] =
                 [pc |-> "validated", op |-> "AppendCounterOffer", pk |-> pk,
                  old_status |-> requests[pk].status,
                  req |-> requests[pk],
                  row |-> [request |-> pk, sender |-> u,
                           receiver |-> counter_receiver(requests[pk], u),
                           price |-> price, created_at |-> 0],
                  peer_won |-> FALSE]]
            /\ UNCHANGED <<resp, notifications>>

\* CounterOfferCreateView.post: CounterOffer.objects.create
CounterInsert(w) ==
    /\ workers[w].pc = "validated"
    /\ workers[w].op = "AppendCounterOffer"
    /\ Len(OffersOf(counter_offers, workers[w].pk)) < MaxOffers
    /\ NowFor(counter_offers, workers[w].pk) <= MaxClock
    /\ LET row == [workers[w].row EXCEPT
                      !.created_at = NowFor(counter_offers, workers[w].pk)]
       IN  /\ workers' = [workers EXCEPT ![w].pc = "inserted", ![w].row = row]
           /\ counter_offers' = IF ATOMIC_REQUESTS THEN counter_offers
                                ELSE Append(counter_offers, row)
    /\ UNCHANGED <<requests, used_pks, shipments, trips, resp, ATOMIC_REQUESTS, notifications>>

\* CounterOfferCreateView.post: "Send notification to receiver of counter
\* offer", the call of notification_service after CounterOffer.objects.create;
\* when the insert raises, the view ends with 500 (and rolls back, if it has a
\* transaction)
CounterNotify(w, notify_ok) ==
    /\ workers[w].pc = "inserted"
    /\ UNCHANGED <<db, ATOMIC_REQUESTS>>
    /\ IF ~notify_ok
       THEN /\ resp' = custom_exception_handler("AppendCounterOffer", 500)
            /\ notifications' = <<>>
            /\ workers' = [workers EXCEPT ![w] = Idle]
       ELSE /\ workers' = [workers EXCEPT ![w].pc = "offer_notified"]
            /\ UNCHANGED <<resp, notifications>>

\* CounterOfferCreateView.post: "Update request status", req.save(update_fields=
\* ["status", "updated_at"]), the response, and the commit
CounterFinish(w) ==
    /\ workers[w].pc = "offer_notified"
    /\ UNCHANGED <<used_pks, shipments, trips, ATOMIC_REQUESTS>>
    /\ LET wk == workers[w]
       IN  /\ Len(OffersOf(counter_offers, wk.pk)) < MaxOffers \/ ~ATOMIC_REQUESTS
           /\ ~RowLocked(w, wk.pk)
           /\ counter_offers' = IF ATOMIC_REQUESTS
                                THEN Append(counter_offers, wk.row)
                                ELSE counter_offers
           /\ requests' = [requests EXCEPT ![wk.pk].status = "countered"]
           /\ resp' = success_response("AppendCounterOffer", 201)
           /\ notifications' = <<notify_counter_offer(wk.row)>>
           /\ workers' = AfterCommit(w, wk.pk, wk.old_status)

\* SpecConc explores the calls that pass the checks of their view (a refused
\* call writes nothing and ends in its first step), on Requests for a shipment
ConcStatusInputs == {"accepted", "cancelled"}
ConcPrices == {1}
ConcBodies == {body \in CreateBodies : body.trip_id = NULL}

PassesPatchChecks(u, pk, value) ==
    /\ pk \in DOMAIN requests
    /\ IsRequestParticipant(requests[pk], u)
    /\ RequestUpdateValid(requests[pk], u, value)

PassesCounterChecks(u, pk, price) ==
    /\ pk \in DOMAIN requests
    /\ IsCounterParticipant(requests[pk], u)
    /\ OpenToCounter(requests[pk])
    /\ validate_price(price)

DoCreateShipmentRequest ==
    \E u \in Users, body \in ConcBodies :
        CreateRequest(u, body.receiver_id, body.shipment_id, body.trip_id,
                      body.offered_price)

DoPatchBegin ==
    \E w \in Workers, u \in Users, pk \in RequestIds, value \in ConcStatusInputs :
        PassesPatchChecks(u, pk, value) /\ PatchBegin(w, u, pk, value)

DoPatchSave == \E w \in Workers : PatchSave(w)

DoPatchNotify ==
    \E w \in Workers, notify_ok \in NotifyOutcomes : PatchNotify(w, notify_ok)

DoPatchFinish == \E w \in Workers : PatchFinish(w)

DoCounterBegin ==
    \E w \in Workers, u \in Users, pk \in RequestIds, price \in ConcPrices :
        PassesCounterChecks(u, pk, price) /\ CounterBegin(w, u, pk, price)

DoCounterInsert == \E w \in Workers : CounterInsert(w)

DoCounterNotify ==
    \E w \in Workers, notify_ok \in NotifyOutcomes : CounterNotify(w, notify_ok)

DoCounterFinish == \E w \in Workers : CounterFinish(w)

NextConc ==
    \/ DoCreateShipmentRequest
    \/ DoPatchBegin
    \/ DoPatchSave
    \/ DoPatchNotify
    \/ DoPatchFinish
    \/ DoCounterBegin
    \/ DoCounterInsert
    \/ DoCounterNotify
    \/ DoCounterFinish

SpecConc == Init /\ [][NextConc]_vars

(* --------------------------- the read views --------------------------- *)
\* a 200 response that carries Request rows: RequestSerializer(req).data of the
\* detail view, the serialized queryset of a list view
data_response(op, rows) ==
    [op |-> op, code |-> 200, success |-> TRUE, results |-> rows]

\* the Request rows a response carries
Results(r) == IF "results" \in DOMAIN r THEN r.results ELSE {}

\* a read view writes nothing
ReadOnly ==
    /\ UNCHANGED <<db, workers, ATOMIC_REQUESTS>>
    /\ notifications' = <<>>

\* RequestDetailView.get
GetRequest(u, pk) ==
    /\ ReadOnly
    /\ IF pk \notin DOMAIN requests
       THEN resp' = success_response("GetRequest", 404)
       ELSE IF ~IsRequestParticipant(requests[pk], u)
       THEN resp' = custom_exception_handler("GetRequest", 403)
       ELSE resp' = data_response("GetRequest", {pk})

\* the values of the query parameter "type" of MyRequestsView
RequestTypes == {"sent", "received", "all"}

\* MyRequestsView.get_queryset
MyRequests(u, request_type) ==
    /\ ReadOnly
    /\ resp' = data_response("ListRequestsForUser",
          IF request_type = "sent"
          THEN {pk \in DOMAIN requests : requests[pk].sender = u}
          ELSE IF request_type = "received"
          THEN {pk \in DOMAIN requests : requests[pk].receiver = u}
          ELSE {pk \in DOMAIN requests :
                   requests[pk].sender = u \/ requests[pk].receiver = u})

\* ShipmentRequestsView.get_queryset: permission_classes = [IsAuthenticated]
ShipmentRequests(u, shipment_id) ==
    /\ ReadOnly
    /\ resp' = data_response("ListRequestsForShipment",
          {pk \in DOMAIN requests : requests[pk].shipment = shipment_id})

\* TripRequestsView.get_queryset: permission_classes = [IsAuthenticated]
TripRequests(u, trip_id) ==
    /\ ReadOnly
    /\ resp' = data_response("ListRequestsForTrip",
          {pk \in DOMAIN requests : requests[pk].trip = trip_id})

DoGetRequest == \E u \in Users, pk \in RequestIds : GetRequest(u, pk)

DoMyRequests == \E u \in Users, request_type \in RequestTypes : MyRequests(u, request_type)

DoShipmentRequests ==
    \E u \in Users, shipment_id \in ShipmentIds \cup {MissingId} :
        ShipmentRequests(u, shipment_id)

DoTripRequests ==
    \E u \in Users, trip_id \in TripIds \cup {MissingId} : TripRequests(u, trip_id)

\* SpecRead: Requests are created and deleted, and read in between
NextRead ==
    \/ DoCreateRequest
    \/ DoDeleteRequest
    \/ DoGetRequest
    \/ DoMyRequests
    \/ DoShipmentRequests
    \/ DoTripRequests

SpecRead == Init /\ [][NextRead]_vars

(* ------------------- two Requests for one Shipment --------------------- *)
\* SpecPair: up to two Requests are created for the Shipment, and each is
\* accepted or cancelled
PairIds == {"r1", "r2"}
PairStatusInputs == {"accepted", "cancelled"}
PairBodies == {body \in CreateBodies :
                  body.shipment_id \in ShipmentIds /\ body.trip_id = NULL}

DoCreateRequestOfPair ==
    \E u \in Users, body \in PairBodies :
        CreateRequestFrom(PairIds, u, body.receiver_id, body.shipment_id,
                          body.trip_id, body.offered_price)

DoUpdateRequestStatusOfPair ==
    \E u \in Users, pk \in PairIds, value \in PairStatusInputs :
        UpdateRequestStatus(u, pk, value)

NextPair ==
    \/ DoCreateRequestOfPair
    \/ DoUpdateRequestStatusOfPair

SpecPair == Init /\ [][NextPair]_vars

(* ============================ the claims ============================== *)
Existing == DOMAIN requests

\* the other party of a Request, seen from one of its two parties
OtherParty(req, u) == IF u = req.sender THEN req.receiver ELSE req.sender

\* C1: once a Request's status is accepted, rejected, cancelled or expired, every
\* UpdateRequestStatus call that names a status and every AppendCounterOffer call
\* on it fails and changes nothing, and no step changes its status or its
\* CounterOffer rows while it exists.
C1_FinalizedIsImmutable ==
    [][\A pk \in Existing :
         requests[pk].status \in {"accepted", "rejected", "cancelled", "expired"} =>
           /\ resp'.op = "UpdateRequestStatus" =>
                \A u \in Users, value \in StatusInputs \ {NULL} :
                    UpdateRequestStatus(u, pk, value) =>
                        Failed(resp') /\ UNCHANGED db
           /\ resp'.op = "AppendCounterOffer" =>
                \A u \in Users, price \in Prices :
                    AppendCounterOffer(u, pk, price) =>
                        Failed(resp') /\ UNCHANGED db
           /\ pk \in DOMAIN requests' =>
                /\ requests'[pk].status = requests[pk].status
                /\ OffersOf(counter_offers', pk) = OffersOf(counter_offers, pk)
      ]_vars

\* C1 witness: an UpdateRequestStatus call was refused on a finalized Request
\* that holds a CounterOffer.
C1_Witness ==
    /\ resp = custom_exception_handler("UpdateRequestStatus", 400)
    /\ \E pk \in Existing :
         /\ requests[pk].status \in FinalStatuses
         /\ OffersOf(counter_offers, pk) # <<>>

\* C2: an UpdateRequestStatus call by user u changes a Request's status to
\* accepted or rejected only if u is its receiver, and to cancelled only if u is
\* its sender; being a superuser does not lift the rule.
C2_RoleLaw ==
    [][resp'.op = "UpdateRequestStatus" =>
         \A pk \in Existing, u \in Users, value \in StatusInputs :
            (/\ UpdateRequestStatus(u, pk, value)
             /\ requests'[pk].status # requests[pk].status) =>
               /\ requests'[pk].status \in {"accepted", "rejected"} =>
                    u = requests[pk].receiver
               /\ requests'[pk].status = "cancelled" => u = requests[pk].sender
      ]_vars

\* C2 witness: a Request between two users other than the superuser was
\* cancelled by an UpdateRequestStatus call.
C2_Witness ==
    /\ resp = success_response("UpdateRequestStatus", 200)
    /\ \E pk \in Existing :
         /\ requests[pk].status = "cancelled"
         /\ ~is_superuser(requests[pk].sender)
         /\ ~is_superuser(requests[pk].receiver)

\* C3: right after an UpdateRequestStatus call by the receiver succeeds in
\* changing a Request with a shipment to accepted, the shipment's status is
\* accepted and its traveler is the Request's receiver if the Request's sender
\* owns the shipment, and the Request's sender otherwise.
C3_FinalizationLaw ==
    [][resp'.op = "UpdateRequestStatus" =>
         \A pk \in Existing, value \in StatusInputs :
            (/\ UpdateRequestStatus(requests[pk].receiver, pk, value)
             /\ ~Failed(resp')
             /\ requests[pk].status # "accepted"
             /\ requests'[pk].status = "accepted"
             /\ requests[pk].shipment # NULL) =>
               LET r == requests[pk]
                   s == r.shipment
               IN  /\ shipments'[s].status = "accepted"
                   /\ shipments'[s].traveler =
                        IF r.sender = shipments[s].sender THEN r.receiver ELSE r.sender
      ]_vars

\* C3 witness: the shipment owner accepted a traveler's Request, and the
\* traveler (the Request's sender) is linked.
C3_Witness ==
    /\ resp = success_response("UpdateRequestStatus", 200)
    /\ \E pk \in Existing :
         /\ requests[pk].status = "accepted"
         /\ requests[pk].shipment # NULL
         /\ requests[pk].receiver = shipments[requests[pk].shipment].sender
         /\ shipments[requests[pk].shipment].traveler = requests[pk].sender
         /\ shipments[requests[pk].shipment].status = "accepted"

\* C4: a negotiation call changes a Shipment's traveler or status only when it is
\* an UpdateRequestStatus call that moves a Request referencing that Shipment
\* from a non-terminal status to accepted.
C4_FinalizerOnlyOnTransition ==
    [][\A sid \in DOMAIN shipments \cap DOMAIN shipments' :
         (/\ resp'.op \in {"CreateRequest", "UpdateRequestStatus",
                           "AppendCounterOffer", "DeleteRequest"}
          /\ shipments'[sid] # shipments[sid]) =>
            \E pk \in Existing :
               /\ requests[pk].shipment = sid
               /\ requests[pk].status \notin FinalStatuses
               /\ pk \in DOMAIN requests'
               /\ requests'[pk].status = "accepted"
      ]_vars

\* C5 (as claimed): of two concurrent status-changing calls on one Request that
\* read the same non-terminal status (two UpdateRequestStatus calls, or an
\* UpdateRequestStatus and an AppendCounterOffer), at most one succeeds: a view
\* whose peer has already succeeded does not answer with success.
C5_MutualExclusion ==
    [][\A w \in Workers :
         (InFlight(workers[w]) /\ workers[w].peer_won) =>
            ~(/\ workers'[w] = Idle
              /\ resp'.op = workers[w].op
              /\ ~Failed(resp'))
      ]_vars

\* C6 (as claimed): no reader of the committed rows sees a Request with a
\* shipment in status accepted while that Shipment has no traveler or is not in
\* status accepted, neither while the accepting call runs nor after it ended,
\* whether it ended with its shipment write or without it.
C6_AcceptanceAtomic ==
    \A pk \in Existing :
        (requests[pk].status = "accepted" /\ requests[pk].shipment # NULL) =>
            /\ shipments[requests[pk].shipment].traveler # NULL
            /\ shipments[requests[pk].shipment].status = "accepted"

\* C7: an AppendCounterOffer call succeeds only if the acting user is the
\* Request's sender or receiver, the Request's status is pending or countered,
\* and price > 0; otherwise it returns an error and creates no CounterOffer.
C7_CounterOfferGuards ==
    [][resp'.op = "AppendCounterOffer" =>
         \A pk \in Existing, u \in Users, price \in Prices :
            AppendCounterOffer(u, pk, price) =>
               \/ /\ u \in {requests[pk].sender, requests[pk].receiver}
                  /\ requests[pk].status \in {"pending", "countered"}
                  /\ price > 0
               \/ /\ Failed(resp')
                  /\ counter_offers' = counter_offers
                  /\ requests' = requests
      ]_vars

\* C7 witness: a participant's counter offer with price 0 on an open Request
\* was refused by the serializer.
C7_Witness ==
    /\ resp = custom_exception_handler("AppendCounterOffer", 400)
    /\ \E pk \in Existing : requests[pk].status \in OpenStatuses

\* C8: a successful AppendCounterOffer by user u on Request r adds exactly one
\* CounterOffer, at the end of r's chain, with sender u, receiver the other party
\* of r and the given price, sets r's status to countered, and makes
\* current_price the new price.
C8_CounterOfferEffect ==
    [][resp'.op = "AppendCounterOffer" =>
         \A pk \in Existing, u \in Users, price \in Prices :
            (AppendCounterOffer(u, pk, price) /\ ~Failed(resp')) =>
               LET before == Chain(counter_offers, pk)
                   after == Chain(counter_offers', pk)
               IN  /\ Len(counter_offers') = Len(counter_offers) + 1
                   /\ Len(after) = Len(before) + 1
                   /\ SubSeq(after, 1, Len(before)) = before
                   /\ after[Len(after)].sender = u
                   /\ after[Len(after)].receiver = OtherParty(requests[pk], u)
                   /\ after[Len(after)].price = price
                   /\ requests'[pk].status = "countered"
                   /\ current_price(requests', counter_offers', pk) = price
      ]_vars

\* C8 witness: the Request's sender answered a counter offer of the receiver
\* with a different price, on a Request that was already countered.
C8_Witness ==
    /\ resp = success_response("AppendCounterOffer", 201)
    /\ \E pk \in Existing :
         LET chain == Chain(counter_offers, pk)
         IN  /\ Len(chain) = 2
             /\ chain[1].sender = requests[pk].receiver
             /\ chain[2].sender = requests[pk].sender
             /\ chain[2].receiver = requests[pk].receiver
             /\ chain[2].price # chain[1].price
             /\ requests[pk].status = "countered"

\* C9: for every Request, current_price is offered_price when the Request has no
\* CounterOffer, and otherwise the price of the CounterOffer inserted last.
C9_CurrentPrice ==
    \A pk \in Existing :
        LET rows == OffersOf(counter_offers, pk)
        IN  current_price(requests, counter_offers, pk) =
                IF rows = <<>> THEN requests[pk].offered_price
                ELSE rows[Len(rows)].price

\* C9 witness: a Request holds two CounterOffers of different prices, both
\* different from offered_price.
C9_Witness ==
    \E pk \in Existing :
        LET rows == OffersOf(counter_offers, pk)
        IN  /\ Len(rows) = 2
            /\ rows[1].price # rows[2].price
            /\ rows[1].price # requests[pk].offered_price
            /\ rows[2].price # requests[pk].offered_price

\* C10 (as claimed): for any two consecutive CounterOffers i and i+1 of a Request,
\* sender[i+1] = receiver[i].
C10_StrictAlternation ==
    \A pk \in Existing :
        LET chain == Chain(counter_offers, pk)
        IN  \A i \in 1 .. Len(chain) - 1 : chain[i + 1].sender = chain[i].receiver

\* C10 (amended): any two consecutive CounterOffers i and i+1 of a Request are
\* between the same two users, so sender[i+1] is receiver[i] or, when the same
\* party offers twice in a row, sender[i]; receiver[i+1] is the other of the two.
C10_SamePartiesInChain ==
    \A pk \in Existing :
        LET chain == Chain(counter_offers, pk)
        IN  \A i \in 1 .. Len(chain) - 1 :
               /\ chain[i + 1].sender \in {chain[i].sender, chain[i].receiver}
               /\ chain[i + 1].receiver \in {chain[i].sender, chain[i].receiver}
               /\ chain[i + 1].receiver # chain[i + 1].sender

\* C10 witness: the same party sent two CounterOffers in a row.
C10_Witness ==
    \E pk \in Existing :
        LET chain == Chain(counter_offers, pk)
        IN  /\ Len(chain) = 2
            /\ chain[2].sender = chain[1].sender
            /\ chain[2].receiver = chain[1].receiver

\* C11: a CreateRequest call fails with a validation error and creates no Request
\* when neither shipment nor trip is given, when the receiver is the sender, when
\* offered_price < 0, or when the shipment, the trip or the receiver it names
\* does not exist: a CreateRequest step that ends otherwise than with the
\* validation error and an unchanged Request table is not the step of any such
\* call.
C11_CreateValidation ==
    [][(/\ resp'.op = "CreateRequest"
        /\ ~(/\ resp' = custom_exception_handler("CreateRequest", 400)
             /\ requests' = requests)) =>
         \A u \in Users, body \in CreateBodies :
            (\/ body.shipment_id = NULL /\ body.trip_id = NULL
             \/ body.receiver_id = u
             \/ body.offered_price < 0
             \/ body.shipment_id # NULL /\ body.shipment_id \notin DOMAIN shipments
             \/ body.trip_id # NULL /\ body.trip_id \notin DOMAIN trips
             \/ body.receiver_id \notin Users) =>
               ~CreateRequest(u, body.receiver_id, body.shipment_id, body.trip_id,
                              body.offered_price)
      ]_vars

\* C11 witness: a CreateRequest call was refused after the Shipment was deleted,
\* and no Request exists.
C11_Witness ==
    /\ resp = custom_exception_handler("CreateRequest", 400)
    /\ requests = <<>>
    /\ DOMAIN shipments = {}

\* C12: every existing Request has a shipment or a trip, also after the Shipment
\* or the Trip it references was deleted.
C12_HasSubject ==
    \A pk \in Existing :
        /\ requests[pk].shipment # NULL \/ requests[pk].trip # NULL
        /\ requests[pk].shipment # NULL => requests[pk].shipment \in DOMAIN shipments
        /\ requests[pk].trip # NULL => requests[pk].trip \in DOMAIN trips

\* C12 witness: a Request for a trip alone holds a CounterOffer after the
\* Shipment was deleted.
C12_Witness ==
    /\ DOMAIN shipments = {}
    /\ \E pk \in Existing :
         /\ requests[pk].shipment = NULL
         /\ requests[pk].trip # NULL
         /\ OffersOf(counter_offers, pk) # <<>>

\* C13: every Request has a sender different from its receiver.
C13_DistinctParties ==
    \A pk \in Existing : requests[pk].sender # requests[pk].receiver

\* C13 witness: a Request that went through a counter offer and a rejection.
C13_Witness ==
    \E pk \in Existing :
        /\ requests[pk].status = "rejected"
        /\ OffersOf(counter_offers, pk) # <<>>

\* the four operations of the negotiation
NegotiationOps ==
    {"CreateRequest", "AppendCounterOffer", "UpdateRequestStatus", "DeleteRequest"}

\* the HTTP statuses of a rejected call: validation or state (400), role or
\* permission (403), not found (404)
RejectionCodes == {400, 403, 404}

\* C14: every CreateRequest, AppendCounterOffer, UpdateRequestStatus or
\* DeleteRequest call that is rejected leaves the persisted state unchanged: no
\* Request is written, no CounterOffer is added, no Shipment field changes.
C14_RejectedLeavesStateUnchanged ==
    [][(resp'.op \in NegotiationOps /\ resp'.code \in RejectionCodes) =>
         /\ requests' = requests
         /\ counter_offers' = counter_offers
         /\ shipments' = shipments
         /\ trips' = trips
      ]_vars

\* C14 witness: a DeleteRequest call was refused on a Request that holds
\* CounterOffers.
C14_Witness ==
    /\ resp = success_response("DeleteRequest", 403)
    /\ \E pk \in Existing : Len(OffersOf(counter_offers, pk)) = MaxOffers

\* C15: when the receiver calls UpdateRequestStatus(accepted) again right after
\* the call that accepted the Request, the second call fails and the Request,
\* its CounterOffers and the Shipment stay as the first call left them.
C15_SecondAcceptFails ==
    [][\A pk \in DOMAIN requests :
         (/\ resp = success_response("UpdateRequestStatus", 200)
          /\ requests[pk].status = "accepted"
          /\ resp'.op = "UpdateRequestStatus"
          /\ UpdateRequestStatus(requests[pk].receiver, pk, "accepted")) =>
            /\ Failed(resp')
            /\ requests' = requests
            /\ counter_offers' = counter_offers
            /\ shipments' = shipments
      ]_vars

\* C15 witness: the second accepting call was refused, and the Request is
\* accepted with its Shipment linked to a traveler.
C15_Witness ==
    /\ resp = custom_exception_handler("UpdateRequestStatus", 400)
    /\ \E pk \in Existing :
         /\ requests[pk].status = "accepted"
         /\ requests[pk].shipment # NULL
         /\ shipments[requests[pk].shipment].traveler # NULL
         /\ shipments[requests[pk].shipment].status = "accepted"

\* C16: when the notification insert fails during CreateRequest,
\* UpdateRequestStatus (accept or reject) or AppendCounterOffer, the change of
\* that call is still committed in full: the Request exists; the status is
\* changed and, on acceptance, the Shipment is linked; the CounterOffer is stored
\* and the status is countered.
C16_NotificationDecoupled ==
    [][resp'.code = 500 =>
         /\ resp'.op = "CreateRequest" =>
                \E pk \in DOMAIN requests' : pk \notin DOMAIN requests
         /\ resp'.op = "UpdateRequestStatus" =>
                \E pk \in DOMAIN requests :
                    /\ requests'[pk].status # requests[pk].status
                    /\ requests'[pk].status \in {"accepted", "rejected"}
                    /\ UpdatesShipment(requests'[pk]) =>
                           shipments' = LinkShipment(shipments, requests'[pk])
         /\ resp'.op = "AppendCounterOffer" =>
                \E pk \in DOMAIN requests :
                    /\ Len(OffersOf(counter_offers', pk)) =
                           Len(OffersOf(counter_offers, pk)) + 1
                    /\ requests'[pk].status = "countered"
      ]_vars

\* C17: no UpdateRequestStatus or AppendCounterOffer call, by the sender, the
\* receiver or a superuser, moves a Request to expired.
C17_ExpiredSystemOnly ==
    [][resp'.op \in {"UpdateRequestStatus", "AppendCounterOffer"} =>
         \A pk \in DOMAIN requests \cap DOMAIN requests' :
            requests'[pk].status = "expired" => requests[pk].status = "expired"
      ]_vars

\* C18: CreateRequest, AppendCounterOffer, UpdateRequestStatus and DeleteRequest
\* leave every Trip's total_weight and used_weight, and so its available_weight
\* and is_full, unchanged.
C18_NoCapacityDebit ==
    [][resp'.op \in NegotiationOps =>
         /\ DOMAIN trips' = DOMAIN trips
         /\ \A t \in DOMAIN trips :
               /\ trips'[t].total_weight = trips[t].total_weight
               /\ trips'[t].used_weight = trips[t].used_weight
               /\ available_weight(trips'[t]) = available_weight(trips[t])
               /\ is_full(trips'[t]) = is_full(trips[t])
      ]_vars

\* C18 witness: a Request that references a Trip was accepted, and the Trip's
\* used_weight is what it was at the start.
C18_Witness ==
    /\ resp = success_response("UpdateRequestStatus", 200)
    /\ \E pk \in Existing :
         /\ requests[pk].status = "accepted"
         /\ requests[pk].trip \in DOMAIN trips
         /\ trips[requests[pk].trip].used_weight = 0
         /\ ~is_full(trips[requests[pk].trip])

\* C19: DeleteRequest succeeds exactly when the acting user is the Request's
\* sender or a superuser, whatever the status; on success the Request and all of
\* its CounterOffers are gone; otherwise the call is refused and removes nothing.
C19_DeleteRequest ==
    [][resp'.op = "DeleteRequest" =>
         \A u \in Users, pk \in DOMAIN requests :
            DeleteRequest(u, pk) =>
               IF u = requests[pk].sender \/ is_superuser(u)
               THEN /\ ~Failed(resp')
                    /\ pk \notin DOMAIN requests'
                    /\ OffersOf(counter_offers', pk) = <<>>
               ELSE /\ Failed(resp')
                    /\ requests' = requests
                    /\ counter_offers' = counter_offers
      ]_vars

\* C19 witness: an accepted Request was deleted with its CounterOffers; the
\* Shipment it was linked to keeps its traveler.
C19_Witness ==
    /\ resp = success_response("DeleteRequest", 200)
    /\ requests = <<>>
    /\ counter_offers = <<>>
    /\ \E sid \in DOMAIN shipments :
         shipments[sid].status = "accepted" /\ shipments[sid].traveler # NULL

\* C20: each successful CreateRequest, acceptance, rejection and
\* AppendCounterOffer inserts exactly one notification, for the party other than
\* the actor: the Request's receiver on creation, the Request's sender on
\* acceptance and rejection, the CounterOffer's receiver on a counter offer; a
\* rejected call and an UpdateRequestStatus call that leaves the status as it was
\* insert none.
C20_OneNotificationToOtherParty ==
    [][resp'.op \in NegotiationOps =>
         /\ resp' = success_response("CreateRequest", 201) =>
               \E pk \in DOMAIN requests' \ DOMAIN requests :
                   /\ Len(notifications') = 1
                   /\ notifications'[1].user = requests'[pk].receiver
                   /\ notifications'[1].user # requests'[pk].sender
         /\ resp' = success_response("UpdateRequestStatus", 200) =>
               \A pk \in DOMAIN requests :
                   /\ (/\ requests'[pk].status # requests[pk].status
                       /\ requests'[pk].status \in {"accepted", "rejected"}) =>
                          /\ Len(notifications') = 1
                          /\ notifications'[1].user = requests[pk].sender
                          /\ notifications'[1].title =
                                 IF requests'[pk].status = "accepted"
                                 THEN "Request Accepted" ELSE "Request Rejected"
                   /\ requests'[pk].status = requests[pk].status =>
                          notifications' = <<>>
         /\ resp' = success_response("AppendCounterOffer", 201) =>
               LET offer == counter_offers'[Len(counter_offers')]
               IN  /\ Len(counter_offers') = Len(counter_offers) + 1
                   /\ Len(notifications') = 1
                   /\ notifications'[1].user = offer.receiver
                   /\ notifications'[1].user # offer.sender
         /\ resp'.code \in RejectionCodes => notifications' = <<>>
      ]_vars

\* C20 witness: the receiver accepted, and the one notification of the call is
\* addressed to the Request's sender.
C20_Witness ==
    /\ resp = success_response("UpdateRequestStatus", 200)
    /\ Len(notifications) = 1
    /\ \E pk \in Existing :
         /\ requests[pk].status = "accepted"
         /\ notifications[1] = notify_request_accepted(requests[pk])

\* C21: every outcome is a success carrying the Request or a tagged error: no
\* response pairs an error status (not found, permission denied, status not open
\* to counter offers) with a body tagged success.
C21_TaggedOutcome ==
    Failed(resp) => ~resp.success

\* C22: every Request is created with status pending and no CounterOffer, and
\* once its status has left pending no operation returns it to pending.
C22_PendingInitialOnly ==
    [][/\ \A pk \in DOMAIN requests' \ DOMAIN requests :
             /\ requests'[pk].status = "pending"
             /\ OffersOf(counter_offers', pk) = <<>>
       /\ \A pk \in DOMAIN requests \cap DOMAIN requests' :
             requests'[pk].status = "pending" => requests[pk].status = "pending"
      ]_vars

\* the sender asks for accepted, rejected or countered, or the receiver for
\* cancelled
RoleViolation(req, u, value) ==
    \/ u = req.sender /\ value \in {"accepted", "rejected", "countered"}
    \/ u = req.receiver /\ value = "cancelled"

\* C24: an UpdateRequestStatus call that violates the role law, or that is made
\* on a finalized Request, is not answered with the kind of response a malformed
\* status gets (the validation failure, status 400).
C24_ErrorKindsDistinct ==
    [][resp' = custom_exception_handler("UpdateRequestStatus", 400) =>
         \A u \in Users, pk \in DOMAIN requests, value \in STATUS_CHOICES :
            (\/ RoleViolation(requests[pk], u, value)
             \/ IsRequestParticipant(requests[pk], u)
                   /\ requests[pk].status \in FinalStatuses) =>
               ~UpdateRequestStatus(u, pk, value)
      ]_vars

\* C26: a Request with status countered has at least one CounterOffer.
C26_CounteredHasOffer ==
    \A pk \in Existing :
        requests[pk].status = "countered" => OffersOf(counter_offers, pk) # <<>>

\* C27: every CounterOffer of a Request is between the Request's two parties:
\* its sender differs from its receiver, and the two are the Request's sender
\* and receiver.
C27_OfferBetweenParties ==
    \A i \in 1 .. Len(counter_offers) :
        LET c == counter_offers[i]
        IN  /\ c.request \in Existing
            /\ c.sender # c.receiver
            /\ {c.sender, c.receiver} =
                   {requests[c.request].sender, requests[c.request].receiver}

\* C27 witness: a Request holds a CounterOffer of its receiver and one of its
\* sender.
C27_Witness ==
    \E i, j \in 1 .. Len(counter_offers) :
        /\ counter_offers[i].request = counter_offers[j].request
        /\ counter_offers[i].request \in Existing
        /\ counter_offers[i].sender = requests[counter_offers[i].request].receiver
        /\ counter_offers[j].sender = requests[counter_offers[j].request].sender

\* C28: an UpdateRequestStatus call changes a Shipment's traveler or status only
\* when the Shipment's owner is one of the two parties of the Request that
\* references it.
C28_LinkOnlyForOwnersRequest ==
    [][resp'.op = "UpdateRequestStatus" =>
         \A sid \in DOMAIN shipments \cap DOMAIN shipments' :
            shipments'[sid] # shipments[sid] =>
               \E pk \in DOMAIN requests :
                  /\ requests[pk].shipment = sid
                  /\ shipments[sid].sender \in
                        {requests[pk].sender, requests[pk].receiver}
      ]_vars

\* the user whose price is in force: the sender of the latest CounterOffer, or
\* the Request's sender when there is none
PriceAuthor(reqs, table, pk) ==
    IF OffersOf(table, pk) = <<>>
    THEN reqs[pk].sender
    ELSE latest_counter_offer(table, pk).sender

\* C30: the user who moves a Request to accepted is not the author of the price
\* in force.
C30_NotAcceptedByPriceAuthor ==
    [][resp'.op = "UpdateRequestStatus" =>
         \A pk \in DOMAIN requests \cap DOMAIN requests' :
            (requests'[pk].status = "accepted" /\ requests[pk].status # "accepted") =>
               \A u \in Users :
                  UpdateRequestStatus(u, pk, "accepted") =>
                     u # PriceAuthor(requests, counter_offers, pk)
      ]_vars

\* C30 as the code has it: the user who moves a Request to accepted is not the
\* author of the price in force, unless that author is the Request's receiver,
\* who may accept after a CounterOffer of their own.
C30_AcceptedByReceiverOnly ==
    [][resp'.op = "UpdateRequestStatus" =>
         \A pk \in DOMAIN requests \cap DOMAIN requests' :
            (requests'[pk].status = "accepted" /\ requests[pk].status # "accepted") =>
               \A u \in Users :
                  UpdateRequestStatus(u, pk, "accepted") =>
                     \/ u # PriceAuthor(requests, counter_offers, pk)
                     \/ /\ OffersOf(counter_offers, pk) # <<>>
                        /\ PriceAuthor(requests, counter_offers, pk) =
                              requests[pk].receiver
      ]_vars

\* C30 witness: the receiver accepted after a CounterOffer of their own.
C30_Witness ==
    /\ resp = success_response("UpdateRequestStatus", 200)
    /\ \E pk \in Existing :
         /\ requests[pk].status = "accepted"
         /\ OffersOf(counter_offers, pk) # <<>>
         /\ PriceAuthor(requests, counter_offers, pk) = requests[pk].receiver

\* C23: within a call the notification comes last: when the view has called the
\* notification service, the Shipment of an accepted Request is already linked,
\* and the Request of a counter offer already has status countered.
C23_NotificationLast ==
    [][\A w \in Workers :
         /\ (workers[w].pc = "saved" /\ workers'[w].pc = "notified") =>
               (UpdatesShipment(workers[w].req) =>
                  LET sid == workers[w].req.shipment
                  IN  /\ shipments'[sid].traveler = Traveler(workers[w].req, shipments)
                      /\ shipments'[sid].status = "accepted")
         /\ (workers[w].pc = "inserted" /\ workers'[w].pc = "offer_notified") =>
               requests'[workers[w].pk].status = "countered"
      ]_vars

\* the response of a read by user u carries only Requests u is a party of, unless
\* u is a superuser
OnlyOwnRequests(u) ==
    \A pk \in Results(resp') :
        u \in {requests[pk].sender, requests[pk].receiver} \/ is_superuser(u)

\* C25: no read operation (request detail, ListRequestsForUser,
\* ListRequestsForShipment, ListRequestsForTrip) returns a Request to a user who
\* is neither its sender nor its receiver nor a superuser.
C25_ReadByPartiesOnly ==
    [][/\ \A u \in Users, pk \in RequestIds :
             GetRequest(u, pk) => OnlyOwnRequests(u)
       /\ \A u \in Users, request_type \in RequestTypes :
             MyRequests(u, request_type) => OnlyOwnRequests(u)
       /\ \A u \in Users, shipment_id \in ShipmentIds \cup {MissingId} :
             ShipmentRequests(u, shipment_id) => OnlyOwnRequests(u)
       /\ \A u \in Users, trip_id \in TripIds \cup {MissingId} :
             TripRequests(u, trip_id) => OnlyOwnRequests(u)
      ]_vars

\* C29: for every Shipment at most one Request that references it is accepted,
\* so an acceptance never replaces the traveler an earlier acceptance assigned.
C29_OneAcceptedPerShipment ==
    \A sid \in DOMAIN shipments :
        Cardinality({pk \in Existing : /\ requests[pk].shipment = sid
                                       /\ requests[pk].status = "accepted"}) <= 1

====
